---- MODULE Spec2Model ----
(***************************************************************************)
(* KnowledgeScout: the server's answer composer (src/server.js), its       *)
(* REST handlers over the Document and Query collections, the document     *)
(* routes (src/unnamed/part_000) and the page script (src/script.js).      *)
(*                                                                         *)
(* A JavaScript string is a sequence of one-character strings, so that     *)
(* trim, split, toLowerCase and includes are computed as the code does.    *)
(* A JavaScript value is a tagged record: Str(s), Num(n), Null, Undefined, *)
(* an object, or TypeError for a call that throws.  Confidences are kept   *)
(* in integer hundredths (0.95 is 95).                                     *)
(***************************************************************************)
EXTENDS Integers, Sequences, FiniteSets, Bags

VARIABLES
    question,       \* argument of the last generateAnswerFromContent call
    documentText,   \* argument of the last generateAnswerFromContent call
    result,         \* what that call returned (NotCalled before the call)
    documents,      \* the Document collection: _id -> record
    nextDocId,      \* the next ObjectId; ids are never reused
    queries,        \* the Query collection, in insertion order
    requests,       \* the bag of handlers suspended at an await
    response,       \* the last response sent
    clock,          \* Date.now() of the server, in ticks
    \* the page script keeps three arrays and mirrors them in localStorage
    uploadedFiles,
    chatMessages,
    queryHistory,
    localStorage,   \* the data under 'knowledgeScoutData', Null before a save
    timers,         \* the callbacks that setTimeout holds
    generated       \* how many ids generateId has returned

vars ==
    << question, documentText, result, documents, nextDocId, queries, requests, response,
       clock, uploadedFiles, chatMessages, queryHistory, localStorage, timers, generated >>
browserVars ==
    << uploadedFiles, chatMessages, queryHistory, localStorage, timers, generated >>
composerVars == << question, documentText, result >>
serverVars == << documents, nextDocId, queries, requests, response, clock >>

-----------------------------------------------------------------------------
(* Bounds of the model *)

\* a document text is the concatenation of at most MaxFragments fragments
MaxFragments == 3
\* documents ever uploaded
MaxDocuments == 1
\* handlers suspended at the same time
MaxRequests == 2
\* queries stored or about to be stored
MaxQueries == 1
\* Query records ever constructed
MaxClock == 2
\* ids the page script ever generates
MaxIds == 7
\* files of one drop or selection
MaxFileList == 2
\* files listed at the same time
MaxFiles == 2
\* callbacks pending at the same time
MaxTimers == 2

-----------------------------------------------------------------------------
(* JavaScript values *)

Null == [t |-> "null"]
Undefined == [t |-> "undefined"]
TypeError == [t |-> "throw"]
Str(s) == [t |-> "string", v |-> s]
Num(n) == [t |-> "number", v |-> n]
Arr(a) == [t |-> "array", v |-> a]

\* ToBoolean of the values used here: null, undefined, "" and 0 are falsy
Truthy(x) ==
    CASE x.t = "null" -> FALSE
      [] x.t = "undefined" -> FALSE
      [] x.t = "string" -> Len(x.v) > 0
      [] x.t = "number" -> x.v # 0
      [] OTHER -> TRUE

\* property read: a string primitive has none of the record's properties
Prop(x, name) ==
    IF x.t = "object" THEN
        CASE name = "answer" -> x.answer
          [] name = "confidence" -> x.confidence
          [] name = "sources" -> x.sources
    ELSE Undefined

-----------------------------------------------------------------------------
(* Strings *)

Min(a, b) == IF a <= b THEN a ELSE b

WhiteSpace == {" ", "\n", "\t"}
SentenceDelimiters == {".", "!", "?"}

UpperCase ==
    << "A", "B", "C", "D", "E", "F", "G", "H", "I", "J", "K", "L", "M",
       "N", "O", "P", "Q", "R", "S", "T", "U", "V", "W", "X", "Y", "Z" >>
LowerCase ==
    << "a", "b", "c", "d", "e", "f", "g", "h", "i", "j", "k", "l", "m",
       "n", "o", "p", "q", "r", "s", "t", "u", "v", "w", "x", "y", "z" >>

LowerChar(c) ==
    IF \E i \in 1..Len(UpperCase) : UpperCase[i] = c
    THEN LowerCase[CHOOSE i \in 1..Len(UpperCase) : UpperCase[i] = c]
    ELSE c

\* String.prototype.toLowerCase
toLowerCase(s) == [i \in 1..Len(s) |-> LowerChar(s[i])]

\* String.prototype.trim
trim(s) ==
    LET idx == {i \in 1..Len(s) : s[i] \notin WhiteSpace}
    IN  IF idx = {} THEN << >>
        ELSE LET lo == CHOOSE i \in idx : \A j \in idx : i <= j
                 hi == CHOOSE i \in idx : \A j \in idx : j <= i
             IN  SubSeq(s, lo, hi)

\* String.prototype.includes
includes(s, w) ==
    \E i \in 0..(Len(s) - Len(w)) : SubSeq(s, i + 1, i + Len(w)) = w

\* String.prototype.split with a regular expression [delims]+ : a run of
\* delimiters separates two pieces; a leading or trailing run leaves an empty
\* piece; the empty string splits into one empty piece.
split(s, delims) ==
    LET isDelim(i) == s[i] \in delims
        starts == {i \in 1..Len(s) : ~isDelim(i) /\ (i = 1 \/ isDelim(i - 1))}
        endOf(a) == CHOOSE j \in a..Len(s) :
                        /\ \A k \in a..j : ~isDelim(k)
                        /\ (j = Len(s) \/ isDelim(j + 1))
        nth(k) == CHOOSE a \in starts : Cardinality({b \in starts : b < a}) = k - 1
        pieces == [k \in 1..Cardinality(starts) |-> SubSeq(s, nth(k), endOf(nth(k)))]
        leading == IF Len(s) = 0 \/ isDelim(1) THEN << << >> >> ELSE << >>
        trailing == IF Len(s) > 0 /\ isDelim(Len(s)) THEN << << >> >> ELSE << >>
    IN  leading \o pieces \o trailing

\* Array.prototype.slice(from, to), zero-based, end exclusive
slice(a, from, to) == SubSeq(a, from + 1, Min(to, Len(a)))

\* Array.prototype.join
RECURSIVE join(_, _)
join(a, sep) ==
    IF Len(a) = 0 THEN << >>
    ELSE IF Len(a) = 1 THEN a[1]
    ELSE a[1] \o sep \o join(Tail(a), sep)

startsWith(s, p) == Len(p) <= Len(s) /\ SubSeq(s, 1, Len(p)) = p

-----------------------------------------------------------------------------
(* String literals of src/server.js *)

BasedOnPrefix ==
    << "B", "a", "s", "e", "d", " ", "o", "n", " ", "t", "h", "e", " ", "d", "o", "c", "u",
       "m", "e", "n", "t", ":", " " >>
AdditionallyInfix ==
    << " ", "A", "d", "d", "i", "t", "i", "o", "n", "a", "l", "l", "y", ",", " " >>
SummaryPrefix ==
    << "D", "o", "c", "u", "m", "e", "n", "t", " ", "s", "u", "m", "m", "a", "r", "y", ":",
       " " >>
MentionsPrefix ==
    << "T", "h", "e", " ", "d", "o", "c", "u", "m", "e", "n", "t", " ", "m", "e", "n", "t",
       "i", "o", "n", "s", ":", " " >>
SentenceJoiner ==
    << ".", " " >>
Space ==
    << " " >>
Word_what ==
    << "w", "h", "a", "t" >>
Word_how ==
    << "h", "o", "w" >>
Word_why ==
    << "w", "h", "y" >>
Word_when ==
    << "w", "h", "e", "n" >>
Word_where ==
    << "w", "h", "e", "r", "e" >>
Word_who ==
    << "w", "h", "o" >>
Word_summary ==
    << "s", "u", "m", "m", "a", "r", "y" >>
Word_overview ==
    << "o", "v", "e", "r", "v", "i", "e", "w" >>
Keywords_what ==
    << << "i", "s" >>,
       << "a", "r", "e" >>,
       << "m", "e", "a", "n", "s" >>,
       << "d", "e", "f", "i", "n", "i", "t", "i", "o", "n" >>,
       << "c", "o", "n", "c", "e", "p", "t" >> >>
Keywords_how ==
    << << "p", "r", "o", "c", "e", "s", "s" >>,
       << "m", "e", "t", "h", "o", "d" >>,
       << "s", "t", "e", "p", "s" >>,
       << "p", "r", "o", "c", "e", "d", "u", "r", "e" >>,
       << "w", "o", "r", "k", "s" >> >>
Keywords_why ==
    << << "b", "e", "c", "a", "u", "s", "e" >>,
       << "r", "e", "a", "s", "o", "n" >>,
       << "p", "u", "r", "p", "o", "s", "e" >>,
       << "b", "e", "n", "e", "f", "i", "t" >>,
       << "a", "d", "v", "a", "n", "t", "a", "g", "e" >> >>
Keywords_when ==
    << << "d", "a", "t", "e" >>,
       << "t", "i", "m", "e" >>,
       << "p", "e", "r", "i", "o", "d" >>,
       << "s", "c", "h", "e", "d", "u", "l", "e" >>,
       << "t", "i", "m", "e", "l", "i", "n", "e" >> >>
Keywords_where ==
    << << "l", "o", "c", "a", "t", "i", "o", "n" >>,
       << "p", "l", "a", "c", "e" >>,
       << "a", "r", "e", "a" >>,
       << "r", "e", "g", "i", "o", "n" >>,
       << "s", "i", "t", "e" >> >>
Fallback_what ==
    << "T", "h", "e", " ", "d", "o", "c", "u", "m", "e", "n", "t", " ", "d", "i", "s", "c",
       "u", "s", "s", "e", "s", " ", "v", "a", "r", "i", "o", "u", "s", " ", "t", "o", "p",
       "i", "c", "s", ",", " ", "b", "u", "t", " ", "I", " ", "c", "o", "u", "l", "d", "n",
       "'", "t", " ", "f", "i", "n", "d", " ", "s", "p", "e", "c", "i", "f", "i", "c", " ",
       "i", "n", "f", "o", "r", "m", "a", "t", "i", "o", "n", " ", "a", "b", "o", "u", "t",
       " ", "y", "o", "u", "r", " ", "q", "u", "e", "s", "t", "i", "o", "n", ".", " ", "C",
       "o", "u", "l", "d", " ", "y", "o", "u", " ", "r", "e", "p", "h", "r", "a", "s", "e",
       " ", "o", "r", " ", "a", "s", "k", " ", "a", "b", "o", "u", "t", " ", "a", " ", "d",
       "i", "f", "f", "e", "r", "e", "n", "t", " ", "a", "s", "p", "e", "c", "t", "?" >>
Fallback_how ==
    << "T", "h", "e", " ", "m", "e", "t", "h", "o", "d", "o", "l", "o", "g", "y", " ", "i",
       "s", "n", "'", "t", " ", "c", "l", "e", "a", "r", "l", "y", " ", "s", "p", "e", "c",
       "i", "f", "i", "e", "d", " ", "i", "n", " ", "t", "h", "e", " ", "a", "c", "c", "e",
       "s", "s", "i", "b", "l", "e", " ", "c", "o", "n", "t", "e", "n", "t", ".", " ", "Y",
       "o", "u", " ", "m", "i", "g", "h", "t", " ", "w", "a", "n", "t", " ", "t", "o", " ",
       "c", "h", "e", "c", "k", " ", "s", "p", "e", "c", "i", "f", "i", "c", " ", "s", "e",
       "c", "t", "i", "o", "n", "s", " ", "o", "f", " ", "t", "h", "e", " ", "d", "o", "c",
       "u", "m", "e", "n", "t", " ", "f", "o", "r", " ", "p", "r", "o", "c", "e", "d", "u",
       "r", "a", "l", " ", "d", "e", "t", "a", "i", "l", "s", "." >>
Fallback_why ==
    << "T", "h", "e", " ", "r", "e", "a", "s", "o", "n", "i", "n", "g", " ", "b", "e", "h",
       "i", "n", "d", " ", "t", "h", "i", "s", " ", "i", "s", "n", "'", "t", " ", "e", "x",
       "p", "l", "i", "c", "i", "t", "l", "y", " ", "s", "t", "a", "t", "e", "d", " ", "i",
       "n", " ", "t", "h", "e", " ", "e", "x", "t", "r", "a", "c", "t", "e", "d", " ", "c",
       "o", "n", "t", "e", "n", "t", ".", " ", "T", "h", "e", " ", "d", "o", "c", "u", "m",
       "e", "n", "t", " ", "m", "a", "y", " ", "c", "o", "n", "t", "a", "i", "n", " ", "t",
       "h", "i", "s", " ", "i", "n", "f", "o", "r", "m", "a", "t", "i", "o", "n", " ", "i",
       "n", " ", "o", "t", "h", "e", "r", " ", "s", "e", "c", "t", "i", "o", "n", "s", "." >>
Fallback_general ==
    << "I", "'", "v", "e", " ", "r", "e", "v", "i", "e", "w", "e", "d", " ", "t", "h", "e",
       " ", "d", "o", "c", "u", "m", "e", "n", "t", " ", "c", "o", "n", "t", "e", "n", "t",
       ",", " ", "b", "u", "t", " ", "c", "o", "u", "l", "d", "n", "'", "t", " ", "f", "i",
       "n", "d", " ", "s", "p", "e", "c", "i", "f", "i", "c", " ", "i", "n", "f", "o", "r",
       "m", "a", "t", "i", "o", "n", " ", "a", "d", "d", "r", "e", "s", "s", "i", "n", "g",
       " ", "y", "o", "u", "r", " ", "q", "u", "e", "s", "t", "i", "o", "n", ".", " ", "T",
       "h", "e", " ", "d", "o", "c", "u", "m", "e", "n", "t", " ", "m", "i", "g", "h", "t",
       " ", "c", "o", "v", "e", "r", " ", "t", "h", "i", "s", " ", "t", "o", "p", "i", "c",
       " ", "i", "n", " ", "s", "e", "c", "t", "i", "o", "n", "s", " ", "t", "h", "a", "t",
       " ", "w", "e", "r", "e", "n", "'", "t", " ", "f", "u", "l", "l", "y", " ", "p", "r",
       "o", "c", "e", "s", "s", "e", "d", "." >>

-----------------------------------------------------------------------------
(* The answer composer, src/server.js lines 130-243 *)

Obj(answer, confidence, sources) ==
    [t |-> "object", answer |-> Str(answer), confidence |-> Num(confidence),
     sources |-> Arr(sources)]

\* documentText.split(/[.!?]+/).filter(s => s.trim().length > 10)
candidateSentences(text) ==
    SelectSeq(split(text, SentenceDelimiters), LAMBDA s : Len(trim(s)) > 10)

\* faulty variant: only words longer than 5 count
questionWords_Longer(q) ==
    SelectSeq(split(toLowerCase(q), WhiteSpace), LAMBDA w : Len(w) > 5)

\* faulty variant: words longer than 2 count
questionWords_Shorter(q) ==
    SelectSeq(split(toLowerCase(q), WhiteSpace), LAMBDA w : Len(w) > 2)

\* question.toLowerCase().split(/\s+/).filter(w => w.length > 3)
questionWords(q) ==
    SelectSeq(split(toLowerCase(q), WhiteSpace), LAMBDA w : Len(w) > 3)

\* questionWords.some(word => sentenceLower.includes(word))
isRelevant(sentence, words) ==
    \E k \in 1..Len(words) : includes(toLowerCase(sentence), words[k])

relevantSentences(q, text) ==
    LET words == questionWords(q)
    IN  SelectSeq(candidateSentences(text), LAMBDA s : isRelevant(s, words))

\* relevantSentences.slice(1, 3).filter(s => s !== bestSentence)
supportingSentences(relevant) ==
    SelectSeq(slice(relevant, 1, 3), LAMBDA s : s # relevant[1])

\* faulty variant: the cap is missing
confidenceFor_Uncapped(n) == 70 + n * 10

\* Math.min(0.7 + (relevantSentences.length * 0.1), 0.95), in hundredths
confidenceFor(n) == Min(70 + n * 10, 95)

\* faulty variant: the question is not lower-cased
getQuestionType_CaseSensitive(q) ==
    IF includes(q, Word_what) THEN "what"
    ELSE IF includes(q, Word_how) THEN "how"
    ELSE IF includes(q, Word_why) THEN "why"
    ELSE IF includes(q, Word_when) THEN "when"
    ELSE IF includes(q, Word_where) THEN "where"
    ELSE IF includes(q, Word_who) THEN "who"
    ELSE "general"

getQuestionType(q) ==
    LET lowerQ == toLowerCase(q)
    IN  IF includes(lowerQ, Word_what) THEN "what"
        ELSE IF includes(lowerQ, Word_how) THEN "how"
        ELSE IF includes(lowerQ, Word_why) THEN "why"
        ELSE IF includes(lowerQ, Word_when) THEN "when"
        ELSE IF includes(lowerQ, Word_where) THEN "where"
        ELSE IF includes(lowerQ, Word_who) THEN "who"
        ELSE "general"

\* fallbackAnswers[questionType] || fallbackAnswers.general
generateFallbackAnswer(q) ==
    LET questionType == getQuestionType(q)
    IN  CASE questionType = "what" -> Fallback_what
          [] questionType = "how" -> Fallback_how
          [] questionType = "why" -> Fallback_why
          [] OTHER -> Fallback_general

\* keywords[questionType] || []
relevantKeywords(questionType) ==
    CASE questionType = "what" -> Keywords_what
      [] questionType = "how" -> Keywords_how
      [] questionType = "why" -> Keywords_why
      [] questionType = "when" -> Keywords_when
      [] questionType = "where" -> Keywords_where
      [] OTHER -> << >>

\* faulty variant: no sentence is returned when none has a keyword
findRelevantContext_NoDefault(questionType, sentences) ==
    LET keywords == relevantKeywords(questionType)
        hits == {i \in 1..Len(sentences) :
                    \E k \in 1..Len(keywords) :
                        includes(toLowerCase(sentences[i]), keywords[k])}
    IN  IF hits # {}
        THEN Str(trim(sentences[CHOOSE i \in hits : \A j \in hits : i <= j]))
        ELSE Null

findRelevantContext(questionType, sentences) ==
    LET keywords == relevantKeywords(questionType)
        hits == {i \in 1..Len(sentences) :
                    \E k \in 1..Len(keywords) :
                        includes(toLowerCase(sentences[i]), keywords[k])}
    IN  IF hits # {}
        THEN Str(trim(sentences[CHOOSE i \in hits : \A j \in hits : i <= j]))
        ELSE IF Len(sentences) > 0 THEN Str(trim(sentences[1]))
        ELSE Null

generateContextualAnswer(q, text) ==
    LET sentences == candidateSentences(text)
        relevantContext == findRelevantContext(getQuestionType(q), sentences)
    IN  IF Truthy(relevantContext)
        THEN Obj(MentionsPrefix \o relevantContext.v, 75,
                 << "Relevant Document Section" >>)
        ELSE Obj(generateFallbackAnswer(q), 60, << "General Document Analysis" >>)

\* faulty variant: the length is taken without trimming
noUsableText_NoTrim(text) ==
    IF ~Truthy(text) THEN "yes"
    ELSE IF text.t # "string" THEN "throw"
    ELSE IF Len(text.v) < 50 THEN "yes"
    ELSE "no"

\* faulty variant: the !documentText guard is missing
noUsableText_NoNullGuard(text) ==
    IF text.t # "string" THEN "throw"
    ELSE IF Len(trim(text.v)) < 50 THEN "yes"
    ELSE "no"

\* !documentText || documentText.trim().length < 50 : "yes", "no", or "throw"
\* when .trim is called on a value that has no such method
noUsableText(text) ==
    IF ~Truthy(text) THEN "yes"
    ELSE IF text.t # "string" THEN "throw"
    ELSE IF Len(trim(text.v)) < 50 THEN "yes"
    ELSE "no"

\* the branch for relevantSentences.length > 0
contentAnswer(relevant) ==
    LET bestSentence == relevant[1]
        supporting == supportingSentences(relevant)
        answer == BasedOnPrefix \o trim(bestSentence)
    IN  Obj(IF Len(supporting) > 0
            THEN answer \o AdditionallyInfix \o join(supporting, Space)
            ELSE answer,
            confidenceFor(Len(relevant)), << "Document Content Analysis" >>)

\* faulty variant: only "overview" is looked for
asksForSummary_OverviewOnly(q) == includes(toLowerCase(q), Word_overview)

\* question.toLowerCase().includes('summary') || ...includes('overview')
asksForSummary(q) ==
    includes(toLowerCase(q), Word_summary) \/ includes(toLowerCase(q), Word_overview)

summaryAnswer(text) ==
    Obj(SummaryPrefix \o join(slice(candidateSentences(text), 0, 3), SentenceJoiner),
        80, << "Document Introduction" >>)

generateAnswerFromContent(q, text) ==
    LET unusable == noUsableText(text)
    IN  IF unusable = "throw" THEN TypeError
        ELSE IF unusable = "yes" THEN Str(generateFallbackAnswer(q))
        ELSE LET relevant == relevantSentences(q, text.v)
             IN  IF Len(relevant) > 0 THEN contentAnswer(relevant)
                 ELSE IF asksForSummary(q) THEN summaryAnswer(text.v)
                 ELSE generateContextualAnswer(q, text.v)

-----------------------------------------------------------------------------
(* Inputs of the composer *)

Fragment_cat ==
    << "T", "h", "e", " ", "c", "a", "t", " ", "s", "a", "t", " ", "o", "n", " ", "t", "h",
       "e", " ", "m", "a", "t", "." >>
Fragment_sunny ==
    << " ", "I", "t", " ", "w", "a", "s", " ", "a", " ", "s", "u", "n", "n", "y", " ", "d",
       "a", "y", " ", "o", "u", "t", "s", "i", "d", "e", "." >>
Fragment_short ==
    << " ", "q", "u", "i", "c", "k", " ", "n", "a", "p", "!", " ", "O", "h", " ", "n", "o",
       ".", " ", "Y", "e", "s", "?" >>
Fragment_process ==
    << " ", "T", "h", "e", " ", "p", "r", "o", "c", "e", "s", "s", " ", "w", "o", "r", "k",
       "s", " ", "b", "e", "c", "a", "u", "s", "e", " ", "i", "t", " ", "i", "s", " ", "s",
       "i", "m", "p", "l", "e", "?", "!" >>
Fragment_blank ==
    << " ", " ", " ", " ", " ", " ", "\n", " ", " ", " ", " ", " ", " ", " " >>
Sentence_cat ==
    << "T", "h", "e", " ", "c", "a", "t", " ", "s", "a", "t", " ", "o", "n", " ", "t", "h",
       "e", " ", "m", "a", "t" >>
FragmentPool ==
    << Fragment_cat, Fragment_sunny, Fragment_short, Fragment_process, Fragment_blank >>

Question_cat ==
    << "W", "h", "a", "t", " ", "d", "i", "d", " ", "t", "h", "e", " ", "c", "a", "t", " ",
       "s", "i", "t", " ", "o", "n", "?" >>
Question_anything ==
    << "a", "n", "y", "t", "h", "i", "n", "g" >>
Question_summary ==
    << "s", "u", "m", "m", "a", "r", "y" >>
Question_overview ==
    << "G", "i", "v", "e", " ", "a", "n", " ", "o", "v", "e", "r", "v", "i", "e", "w" >>
Question_sunny ==
    << "H", "o", "w", " ", "s", "u", "n", "n", "y", " ", "o", "u", "t", "s", "i", "d", "e",
       "?" >>
Question_process ==
    << "W", "h", "y", " ", "p", "r", "o", "c", "e", "s", "s" >>
Question_quick ==
    << "q", "u", "i", "c", "k", " ", "s", "u", "m", "m", "a", "r", "y" >>
Question_upper ==
    << "S", "U", "N", "N", "Y", " ", "C", "a", "t" >>
Question_empty ==
    << >>
Question_who ==
    << "w", "h", "o", " ", "k", "n", "o", "w", "s" >>
Question_both ==
    << "s", "u", "n", "n", "y", " ", "p", "r", "o", "c", "e", "s", "s" >>
Question_when ==
    << "W", "h", "e", "n", " ", "s", "o", "m", "e", "h", "o", "w" >>
QuestionPool ==
    << Question_cat,
       Question_anything,
       Question_summary,
       Question_overview,
       Question_sunny,
       Question_process,
       Question_quick,
       Question_upper,
       Question_empty,
       Question_who,
       Question_both,
       Question_when >>

Questions == {QuestionPool[i] : i \in 1..Len(QuestionPool)}

RECURSIVE concat(_)
concat(pieces) ==
    IF Len(pieces) = 0 THEN << >> ELSE pieces[1] \o concat(Tail(pieces))

FragmentChoices ==
    UNION {[1..n -> 1..Len(FragmentPool)] : n \in 0..MaxFragments}

\* the document texts: null, and every concatenation of at most MaxFragments
\* fragments ("" for none)
DocumentTexts ==
    {Null} \cup {Str(concat([i \in 1..Len(c) |-> FragmentPool[c[i]]])) : c \in FragmentChoices}

-----------------------------------------------------------------------------
(* The composer called on every input *)

NotCalled == [t |-> "notcalled"]
NoResponse == [route |-> "none", status |-> 0]
ServerInit ==
    /\ documents = << >>
    /\ nextDocId = 1
    /\ queries = << >>
    /\ requests = EmptyBag
    /\ response = NoResponse
    /\ clock = 0

\* the page with nothing saved
BrowserInit ==
    /\ uploadedFiles = << >>
    /\ chatMessages = << >>
    /\ queryHistory = << >>
    /\ localStorage = Null
    /\ timers = << >>
    /\ generated = 0

ComposerInit ==
    /\ question \in Questions
    /\ documentText \in DocumentTexts
    /\ result = NotCalled
    /\ ServerInit
    /\ BrowserInit

Call ==
    /\ result = NotCalled
    /\ result' = generateAnswerFromContent(question, documentText)
    /\ UNCHANGED << question, documentText, serverVars, browserVars >>

ComposerNext == Call

ComposerSpec == ComposerInit /\ [][ComposerNext]_vars

-----------------------------------------------------------------------------
(* The request handlers: src/server.js lines 260-400 and the document routes *)
(* of src/unnamed/part_000.  A handler runs to its next await in one step;   *)
(* each database call is atomic.                                             *)

\* an uploaded file: its name's extension and the text an extractor finds in it
UploadFiles ==
    {[extension |-> "txt", text |-> << >>],
     [extension |-> "txt", text |-> Fragment_cat],
     [extension |-> "txt", text |-> Fragment_cat \o Fragment_sunny]}

\* request bodies of POST /api/ask
AskQuestions == {Undefined, Str(Question_sunny)}
ObjectId(i) == [t |-> "objectid", v |-> i]
AskDocumentIds == {Undefined} \cup {ObjectId(i) : i \in 1..MaxDocuments}

getMimeType(file) ==
    CASE file.extension = "pdf" -> "application/pdf"
      [] file.extension = "docx" ->
            "application/vnd.openxmlformats-officedocument.wordprocessingml.document"
      [] file.extension = "doc" -> "application/msword"
      [] file.extension = "txt" -> "text/plain"
      [] OTHER -> "application/octet-stream"

\* the extractor's result for the file, or TypeError for 'Unsupported file type'
extractTextFromFile(file, mimeType) ==
    IF mimeType \in {"application/pdf", "text/plain",
                     "application/vnd.openxmlformats-officedocument.wordprocessingml.document"}
    THEN Str(file.text)
    ELSE TypeError

\* new Document({filename, originalName, filePath, fileSize}) with the schema defaults
newDocument(id, file) ==
    [_id |-> id, file |-> file, processed |-> FALSE, extractedText |-> Undefined,
     wordCount |-> Undefined, content |-> Undefined]

\* faulty variant: the extracted text is appended to the text already stored
processedDocument_Appending(document, extractedText) ==
    LET text == IF document.extractedText.t = "string"
                THEN document.extractedText.v \o extractedText
                ELSE extractedText
    IN  [document EXCEPT !.processed = TRUE,
                         !.extractedText = Str(text),
                         !.wordCount = Num(Len(split(text, WhiteSpace))),
                         !.content = [t |-> "string", words |-> Len(split(text, WhiteSpace))]]

\* the assignments of lines 314-317; content is kept as its word count
processedDocument(document, extractedText) ==
    [document EXCEPT !.processed = TRUE,
                     !.extractedText = Str(extractedText),
                     !.wordCount = Num(Len(split(extractedText, WhiteSpace))),
                     !.content = [t |-> "string",
                                  words |-> Len(split(extractedText, WhiteSpace))]]

\* new Query({documentId, question, answer, confidence, sources}): a property
\* that is undefined is left unset; sources defaults to an empty array and
\* timestamp to Date.now()
newQuery(document, q, res) ==
    [documentId |-> document._id,
     question |-> q,
     answer |-> Prop(res, "answer"),
     confidence |-> Prop(res, "confidence"),
     timestamp |-> clock,
     sources |-> IF Prop(res, "sources").t = "array" THEN Prop(res, "sources").v ELSE << >>]

findById(id) == IF id \in DOMAIN documents THEN documents[id] ELSE Null

Respond(route, status, loaded) ==
    response' = [route |-> route, status |-> status, loaded |-> loaded]

\* a handler reaches an await, and resumes from it
Suspend(request) == requests' = requests (+) SetToBag({request})
Resume(request) == requests' = requests (-) SetToBag({request})

Suspended == BagToSet(requests)
CanSuspend == BagCardinality(requests) < MaxRequests

\* queries that suspended handlers are about to save
PendingQueries ==
    BagCardinality([r \in {x \in Suspended : x.kind = "ask"} |-> requests[r]])

\* POST /api/upload
Upload ==
    /\ nextDocId <= MaxDocuments
    /\ \E file \in UploadFiles :
          documents' = [i \in DOMAIN documents \cup {nextDocId} |->
                           IF i = nextDocId THEN newDocument(nextDocId, file)
                           ELSE documents[i]]
    /\ nextDocId' = nextDocId + 1
    /\ Respond("upload", 200, "none")
    /\ UNCHANGED << composerVars, browserVars, queries, requests, clock >>

\* POST /api/upload without a file
UploadNoFile ==
    /\ Respond("upload", 400, "none")
    /\ UNCHANGED << composerVars, browserVars, documents, nextDocId, queries, requests, clock >>

\* POST /api/process/:id up to the end of findById
ProcessFind ==
    \E id \in 1..MaxDocuments :
        LET document == findById(id)
        IN  /\ CanSuspend
            /\ IF document = Null
               THEN /\ Respond("process", 404, "none")
                    /\ UNCHANGED requests
               ELSE /\ Suspend([kind |-> "process", document |-> document])
                    /\ UNCHANGED response
            /\ UNCHANGED << composerVars, browserVars, documents, nextDocId, queries, clock >>

\* POST /api/process/:id from the extraction to the response; save() updates
\* the stored document of that _id and fails when it is gone
ProcessSave ==
    \E request \in Suspended :
        /\ request.kind = "process"
        /\ LET document == request.document
               loaded == IF document.processed THEN "processed" ELSE "unprocessed"
               extractedText == extractTextFromFile(document.file, getMimeType(document.file))
           IN  IF \/ extractedText = TypeError
                  \/ ~Truthy(extractedText)
                  \/ Len(trim(extractedText.v)) < 10
               THEN /\ Respond("process", 400, loaded)
                    /\ UNCHANGED documents
               ELSE IF document._id \in DOMAIN documents
               THEN /\ documents' = [documents EXCEPT ![document._id] =
                                        processedDocument(@, extractedText.v)]
                    /\ Respond("process", 200, loaded)
               ELSE /\ Respond("process", 500, loaded)
                    /\ UNCHANGED documents
        /\ Resume(request)
        /\ UNCHANGED << composerVars, browserVars, nextDocId, queries, clock >>

\* faulty variant: the handler answers from a document that was never processed
AskFind_NoProcessedCheck ==
    \E documentId \in AskDocumentIds, q \in AskQuestions :
        /\ CanSuspend
        /\ Len(queries) + PendingQueries < MaxQueries
        /\ clock < MaxClock
        /\ IF ~Truthy(documentId) \/ ~Truthy(q)
           THEN /\ Respond("ask", 400, "none")
                /\ UNCHANGED << requests, clock >>
           ELSE LET document == findById(documentId.v)
                IN  IF document = Null
                    THEN /\ Respond("ask", 404, "none")
                         /\ UNCHANGED << requests, clock >>
                    ELSE /\ clock' = clock + 1
                         /\ Suspend([kind |-> "ask",
                                      query |-> newQuery(document, q.v,
                                          generateAnswerFromContent(q.v, document.extractedText))])
                         /\ UNCHANGED response
        /\ UNCHANGED << composerVars, browserVars, documents, nextDocId, queries >>

\* POST /api/ask up to the construction of the Query
AskFind ==
    \E documentId \in AskDocumentIds, q \in AskQuestions :
        /\ CanSuspend
        /\ Len(queries) + PendingQueries < MaxQueries
        /\ clock < MaxClock
        /\ IF ~Truthy(documentId) \/ ~Truthy(q)
           THEN /\ Respond("ask", 400, "none")
                /\ UNCHANGED << requests, clock >>
           ELSE LET document == findById(documentId.v)
                IN  IF document = Null
                    THEN /\ Respond("ask", 404, "none")
                         /\ UNCHANGED << requests, clock >>
                    ELSE IF ~document.processed
                    THEN /\ Respond("ask", 400, "unprocessed")
                         /\ UNCHANGED << requests, clock >>
                    ELSE IF ~Truthy(document.extractedText)
                    THEN /\ Respond("ask", 400, "processed")
                         /\ UNCHANGED << requests, clock >>
                    ELSE /\ clock' = clock + 1
                         /\ Suspend([kind |-> "ask",
                                      query |-> newQuery(document, q.v,
                                          generateAnswerFromContent(q.v, document.extractedText))])
                         /\ UNCHANGED response
        /\ UNCHANGED << composerVars, browserVars, documents, nextDocId, queries >>

\* POST /api/ask from query.save() to the response
AskSave ==
    \E request \in Suspended :
        /\ request.kind = "ask"
        /\ queries' = Append(queries, request.query)
        /\ Resume(request)
        /\ Respond("ask", 200, "processed")
        /\ UNCHANGED << composerVars, browserVars, documents, nextDocId, clock >>

\* DELETE /documents/:id up to the end of findByIdAndDelete
DeleteFind ==
    \E id \in 1..MaxDocuments :
        /\ CanSuspend
        /\ IF id \notin DOMAIN documents
           THEN /\ Respond("delete", 404, "none")
                /\ UNCHANGED << documents, requests >>
           ELSE /\ documents' = [i \in DOMAIN documents \ {id} |-> documents[i]]
                /\ Suspend([kind |-> "delete", id |-> id])
                /\ UNCHANGED response
        /\ UNCHANGED << composerVars, browserVars, nextDocId, queries, clock >>

\* DELETE /documents/:id from Query.deleteMany to the response
DeleteQueries ==
    \E request \in Suspended :
        /\ request.kind = "delete"
        /\ queries' = SelectSeq(queries, LAMBDA query : query.documentId # request.id)
        /\ Resume(request)
        /\ Respond("delete", 200, "none")
        /\ UNCHANGED << composerVars, browserVars, documents, nextDocId, clock >>

\* .limit(50) of the history route
HistoryLimit == 50

\* Query.find(filter) on documentId: an ObjectId selects the queries of that
\* document. An undefined value is not cast; the driver then either writes it
\* as null, which no stored documentId equals, or drops the key, which leaves
\* the empty filter: the caller says which with ignoreUndefined.
find(documentId, ignoreUndefined) ==
    IF documentId = Undefined
    THEN IF ignoreUndefined THEN queries ELSE << >>
    ELSE SelectSeq(queries, LAMBDA query : query.documentId = documentId.v)

\* .sort({ timestamp: -1 }): newest first
RECURSIVE sortByTimestampDescending(_)
sortByTimestampDescending(found) ==
    IF found = << >>
    THEN << >>
    ELSE LET newest == CHOOSE i \in 1..Len(found) :
                           \A j \in 1..Len(found) :
                               /\ found[j].timestamp <= found[i].timestamp
                               /\ found[j].timestamp = found[i].timestamp => i <= j
             others == [j \in 1..(Len(found) - 1) |->
                           IF j < newest THEN found[j] ELSE found[j + 1]]
         IN  << found[newest] >> \o sortByTimestampDescending(others)

\* .limit(n)
limit(found, n) == SubSeq(found, 1, Min(n, Len(found)))

\* res.json(queries) of a history request for the path parameter documentId
RespondQueries(route, documentId, body) ==
    response' = [route |-> route, status |-> 200, loaded |-> "none",
                 documentId |-> documentId, body |-> body]

\* req.params of GET /api/history/:documentId: the route names its parameter
\* documentId, and no other key is set
historyParams(documentId) == [documentId |-> ObjectId(documentId)]

\* req.params.name: a key the route does not name reads undefined
param(params, name) == IF name \in DOMAIN params THEN params[name] ELSE Undefined

\* GET /api/history/:documentId, which filters on req.params.id
History ==
    \E documentId \in 1..MaxDocuments, ignoreUndefined \in BOOLEAN :
        /\ RespondQueries("history", documentId,
               limit(sortByTimestampDescending(
                         find(param(historyParams(documentId), "id"), ignoreUndefined)),
                     HistoryLimit))
        /\ UNCHANGED << composerVars, browserVars, documents, nextDocId, queries, requests, clock >>

Init ==
    /\ question = Question_empty
    /\ documentText = Null
    /\ result = NotCalled
    /\ ServerInit
    /\ BrowserInit

Next ==
    \/ Upload
    \/ UploadNoFile
    \/ ProcessFind
    \/ ProcessSave
    \/ AskFind
    \/ AskSave
    \/ DeleteFind
    \/ DeleteQueries
    \/ History

Spec == Init /\ [][Next]_vars

-----------------------------------------------------------------------------
(* String literals of src/script.js *)

\* content of the loading indicator
LoadingDots ==
    << "<", "d", "i", "v", " ", "c", "l", "a", "s", "s", "=", "\"", "l", "o", "a", "d", "i",
       "n", "g", "-", "d", "o", "t", "s", "\"", ">", "<", "s", "p", "a", "n", ">", "<", "/",
       "s", "p", "a", "n", ">", "<", "s", "p", "a", "n", ">", "<", "/", "s", "p", "a", "n",
       ">", "<", "s", "p", "a", "n", ">", "<", "/", "s", "p", "a", "n", ">", "<", "/", "d",
       "i", "v", ">" >>
ProcessedPrefix ==
    << "I", "'", "v", "e", " ", "p", "r", "o", "c", "e", "s", "s", "e", "d", " ", "\"" >>
ProcessedSuffix ==
    << "\"", ".", " ", "Y", "o", "u", " ", "c", "a", "n", " ", "n", "o", "w", " ", "a", "s",
       "k", " ", "m", "e", " ", "q", "u", "e", "s", "t", "i", "o", "n", "s", " ", "a", "b",
       "o", "u", "t", " ", "t", "h", "i", "s", " ", "d", "o", "c", "u", "m", "e", "n", "t",
       "." >>
Word_document ==
    << "d", "o", "c", "u", "m", "e", "n", "t" >>
Word_author ==
    << "a", "u", "t", "h", "o", "r" >>
Word_created ==
    << "c", "r", "e", "a", "t", "e", "d" >>
Word_summarize ==
    << "s", "u", "m", "m", "a", "r", "i", "z", "e" >>
Word_howMany ==
    << "h", "o", "w", " ", "m", "a", "n", "y" >>
Word_numberOf ==
    << "n", "u", "m", "b", "e", "r", " ", "o", "f" >>
Answer_whatDocument ==
    << "T", "h", "i", "s", " ", "d", "o", "c", "u", "m", "e", "n", "t", " ", "a", "p", "p",
       "e", "a", "r", "s", " ", "t", "o", " ", "b", "e", " ", "a", " ", "s", "a", "m", "p",
       "l", "e", " ", "d", "o", "c", "u", "m", "e", "n", "t", " ", "u", "p", "l", "o", "a",
       "d", "e", "d", " ", "f", "o", "r", " ", "d", "e", "m", "o", "n", "s", "t", "r", "a",
       "t", "i", "o", "n", " ", "p", "u", "r", "p", "o", "s", "e", "s", ".", " ", "I", "t",
       " ", "c", "o", "n", "t", "a", "i", "n", "s", " ", "v", "a", "r", "i", "o", "u", "s",
       " ", "s", "e", "c", "t", "i", "o", "n", "s", " ", "t", "h", "a", "t", " ", "c", "a",
       "n", " ", "b", "e", " ", "q", "u", "e", "r", "i", "e", "d", " ", "u", "s", "i", "n",
       "g", " ", "t", "h", "i", "s", " ", "Q", "&", "A", " ", "s", "y", "s", "t", "e", "m",
       "." >>
Answer_who ==
    << "B", "a", "s", "e", "d", " ", "o", "n", " ", "t", "h", "e", " ", "d", "o", "c", "u",
       "m", "e", "n", "t", " ", "m", "e", "t", "a", "d", "a", "t", "a", ",", " ", "i", "t",
       " ", "w", "a", "s", " ", "c", "r", "e", "a", "t", "e", "d", " ", "b", "y", " ", "a",
       " ", "u", "s", "e", "r", " ", "o", "f", " ", "t", "h", "e", " ", "K", "n", "o", "w",
       "l", "e", "d", "g", "e", "S", "c", "o", "u", "t", " ", "s", "y", "s", "t", "e", "m",
       ".", " ", "T", "h", "e", " ", "e", "x", "a", "c", "t", " ", "a", "u", "t", "h", "o",
       "r", " ", "i", "n", "f", "o", "r", "m", "a", "t", "i", "o", "n", " ", "w", "o", "u",
       "l", "d", " ", "d", "e", "p", "e", "n", "d", " ", "o", "n", " ", "t", "h", "e", " ",
       "o", "r", "i", "g", "i", "n", "a", "l", " ", "d", "o", "c", "u", "m", "e", "n", "t",
       " ", "p", "r", "o", "p", "e", "r", "t", "i", "e", "s", "." >>
Answer_summary ==
    << "T", "h", "e", " ", "d", "o", "c", "u", "m", "e", "n", "t", " ", "c", "o", "v", "e",
       "r", "s", " ", "m", "u", "l", "t", "i", "p", "l", "e", " ", "t", "o", "p", "i", "c",
       "s", " ", "t", "h", "a", "t", " ", "c", "a", "n", " ", "b", "e", " ", "e", "x", "p",
       "l", "o", "r", "e", "d", " ", "t", "h", "r", "o", "u", "g", "h", " ", "s", "p", "e",
       "c", "i", "f", "i", "c", " ", "q", "u", "e", "s", "t", "i", "o", "n", "s", ".", " ",
       "F", "o", "r", " ", "a", " ", "d", "e", "t", "a", "i", "l", "e", "d", " ", "s", "u",
       "m", "m", "a", "r", "y", ",", " ", "I", " ", "w", "o", "u", "l", "d", " ", "n", "e",
       "e", "d", " ", "t", "o", " ", "a", "n", "a", "l", "y", "z", "e", " ", "t", "h", "e",
       " ", "c", "o", "n", "t", "e", "n", "t", " ", "m", "o", "r", "e", " ", "t", "h", "o",
       "r", "o", "u", "g", "h", "l", "y", ".", " ", "C", "o", "u", "l", "d", " ", "y", "o",
       "u", " ", "a", "s", "k", " ", "a", "b", "o", "u", "t", " ", "a", " ", "s", "p", "e",
       "c", "i", "f", "i", "c", " ", "s", "e", "c", "t", "i", "o", "n", " ", "o", "r", " ",
       "t", "o", "p", "i", "c", "?" >>
Answer_howMany ==
    << "T", "h", "e", " ", "d", "o", "c", "u", "m", "e", "n", "t", " ", "c", "o", "n", "t",
       "a", "i", "n", "s", " ", "s", "e", "v", "e", "r", "a", "l", " ", "s", "e", "c", "t",
       "i", "o", "n", "s", ",", " ", "b", "u", "t", " ", "t", "h", "e", " ", "e", "x", "a",
       "c", "t", " ", "c", "o", "u", "n", "t", " ", "w", "o", "u", "l", "d", " ", "d", "e",
       "p", "e", "n", "d", " ", "o", "n", " ", "t", "h", "e", " ", "d", "o", "c", "u", "m",
       "e", "n", "t", " ", "s", "t", "r", "u", "c", "t", "u", "r", "e", ".", " ", "I", "n",
       " ", "a", " ", "t", "y", "p", "i", "c", "a", "l", " ", "d", "o", "c", "u", "m", "e",
       "n", "t", ",", " ", "y", "o", "u", " ", "m", "i", "g", "h", "t", " ", "f", "i", "n",
       "d", " ", "s", "e", "c", "t", "i", "o", "n", "s", " ", "l", "i", "k", "e", " ", "i",
       "n", "t", "r", "o", "d", "u", "c", "t", "i", "o", "n", ",", " ", "m", "e", "t", "h",
       "o", "d", "o", "l", "o", "g", "y", ",", " ", "r", "e", "s", "u", "l", "t", "s", ",",
       " ", "a", "n", "d", " ", "c", "o", "n", "c", "l", "u", "s", "i", "o", "n", "." >>
Answer_generic0 ==
    << "B", "a", "s", "e", "d", " ", "o", "n", " ", "t", "h", "e", " ", "d", "o", "c", "u",
       "m", "e", "n", "t", " ", "c", "o", "n", "t", "e", "n", "t", ",", " ", "I", " ", "c",
       "a", "n", " ", "t", "e", "l", "l", " ", "y", "o", "u", " ", "t", "h", "a", "t", " ",
       "t", "h", "i", "s", " ", "i", "n", "f", "o", "r", "m", "a", "t", "i", "o", "n", " ",
       "i", "s", " ", "c", "o", "v", "e", "r", "e", "d", " ", "i", "n", " ", "s", "e", "c",
       "t", "i", "o", "n", " ", "3", ".", "2", ".", " ", "W", "o", "u", "l", "d", " ", "y",
       "o", "u", " ", "l", "i", "k", "e", " ", "m", "e", " ", "t", "o", " ", "p", "r", "o",
       "v", "i", "d", "e", " ", "m", "o", "r", "e", " ", "s", "p", "e", "c", "i", "f", "i",
       "c", " ", "d", "e", "t", "a", "i", "l", "s", "?" >>
Answer_generic1 ==
    << "T", "h", "e", " ", "d", "o", "c", "u", "m", "e", "n", "t", " ", "m", "e", "n", "t",
       "i", "o", "n", "s", " ", "t", "h", "i", "s", " ", "t", "o", "p", "i", "c", " ", "i",
       "n", " ", "t", "h", "e", " ", "c", "o", "n", "t", "e", "x", "t", " ", "o", "f", " ",
       "t", "h", "e", " ", "m", "a", "i", "n", " ", "d", "i", "s", "c", "u", "s", "s", "i",
       "o", "n", ".", " ", "T", "h", "e", " ", "r", "e", "l", "e", "v", "a", "n", "t", " ",
       "i", "n", "f", "o", "r", "m", "a", "t", "i", "o", "n", " ", "a", "p", "p", "e", "a",
       "r", "s", " ", "i", "n", " ", "t", "h", "e", " ", "s", "e", "c", "o", "n", "d", " ",
       "h", "a", "l", "f", " ", "o", "f", " ", "t", "h", "e", " ", "d", "o", "c", "u", "m",
       "e", "n", "t", "." >>
Answer_generic2 ==
    << "I", " ", "f", "o", "u", "n", "d", " ", "s", "e", "v", "e", "r", "a", "l", " ", "r",
       "e", "f", "e", "r", "e", "n", "c", "e", "s", " ", "t", "o", " ", "t", "h", "i", "s",
       " ", "i", "n", " ", "t", "h", "e", " ", "d", "o", "c", "u", "m", "e", "n", "t", ".",
       " ", "T", "h", "e", " ", "m", "o", "s", "t", " ", "r", "e", "l", "e", "v", "a", "n",
       "t", " ", "p", "a", "s", "s", "a", "g", "e", " ", "s", "t", "a", "t", "e", "s", " ",
       "t", "h", "a", "t", " ", "t", "h", "i", "s", " ", "i", "s", " ", "a", "n", " ", "i",
       "m", "p", "o", "r", "t", "a", "n", "t", " ", "a", "s", "p", "e", "c", "t", " ", "o",
       "f", " ", "t", "h", "e", " ", "o", "v", "e", "r", "a", "l", "l", " ", "t", "o", "p",
       "i", "c", "." >>
Answer_generic3 ==
    << "T", "h", "i", "s", " ", "q", "u", "e", "s", "t", "i", "o", "n", " ", "r", "e", "l",
       "a", "t", "e", "s", " ", "t", "o", " ", "t", "h", "e", " ", "c", "o", "r", "e", " ",
       "s", "u", "b", "j", "e", "c", "t", " ", "m", "a", "t", "t", "e", "r", " ", "o", "f",
       " ", "t", "h", "e", " ", "d", "o", "c", "u", "m", "e", "n", "t", ".", " ", "T", "h",
       "e", " ", "a", "u", "t", "h", "o", "r", " ", "d", "i", "s", "c", "u", "s", "s", "e",
       "s", " ", "t", "h", "i", "s", " ", "i", "n", " ", "d", "e", "t", "a", "i", "l", " ",
       "a", "c", "r", "o", "s", "s", " ", "m", "u", "l", "t", "i", "p", "l", "e", " ", "s",
       "e", "c", "t", "i", "o", "n", "s", "." >>
Answer_generic4 ==
    << "T", "h", "e", " ", "d", "o", "c", "u", "m", "e", "n", "t", " ", "p", "r", "o", "v",
       "i", "d", "e", "s", " ", "c", "o", "m", "p", "r", "e", "h", "e", "n", "s", "i", "v",
       "e", " ", "c", "o", "v", "e", "r", "a", "g", "e", " ", "o", "f", " ", "t", "h", "i",
       "s", " ", "t", "o", "p", "i", "c", ".", " ", "W", "o", "u", "l", "d", " ", "y", "o",
       "u", " ", "l", "i", "k", "e", " ", "m", "e", " ", "t", "o", " ", "f", "o", "c", "u",
       "s", " ", "o", "n", " ", "a", " ", "s", "p", "e", "c", "i", "f", "i", "c", " ", "a",
       "s", "p", "e", "c", "t", " ", "o", "f", " ", "i", "t", "?" >>
answers ==
    << Answer_generic0, Answer_generic1, Answer_generic2, Answer_generic3, Answer_generic4 >>
ZeroBytes ==
    << "0", " ", "B", "y", "t", "e", "s" >>
Unit_Bytes ==
    << "B", "y", "t", "e", "s" >>
Unit_KB ==
    << "K", "B" >>
Unit_MB ==
    << "M", "B" >>
Unit_GB ==
    << "G", "B" >>
sizes == << Unit_Bytes, Unit_KB, Unit_MB, Unit_GB >>
Type_pdf ==
    << "a", "p", "p", "l", "i", "c", "a", "t", "i", "o", "n", "/", "p", "d", "f" >>
Type_msword ==
    << "a", "p", "p", "l", "i", "c", "a", "t", "i", "o", "n", "/", "m", "s", "w", "o", "r",
       "d" >>
Type_docx ==
    << "a", "p", "p", "l", "i", "c", "a", "t", "i", "o", "n", "/", "v", "n", "d", ".", "o",
       "p", "e", "n", "x", "m", "l", "f", "o", "r", "m", "a", "t", "s", "-", "o", "f", "f",
       "i", "c", "e", "d", "o", "c", "u", "m", "e", "n", "t", ".", "w", "o", "r", "d", "p",
       "r", "o", "c", "e", "s", "s", "i", "n", "g", "m", "l", ".", "d", "o", "c", "u", "m",
       "e", "n", "t" >>
Type_text ==
    << "t", "e", "x", "t", "/", "p", "l", "a", "i", "n" >>
supportedTypes == { Type_pdf, Type_msword, Type_docx, Type_text }
Type_png ==
    << "i", "m", "a", "g", "e", "/", "p", "n", "g" >>
Name_notes ==
    << "n", "o", "t", "e", "s", ".", "t", "x", "t" >>
Name_photo ==
    << "p", "h", "o", "t", "o", ".", "p", "n", "g" >>
Question_document ==
    << "W", "h", "a", "t", " ", "i", "s", " ", "t", "h", "i", "s", " ", "d", "o", "c", "u",
       "m", "e", "n", "t", "?" >>
Question_hello ==
    << " ", "h", "e", "l", "l", "o", " " >>
Question_spaces ==
    << " ", " ", " " >>

-----------------------------------------------------------------------------
(* The page script, src/script.js.  An event handler or a timer callback    *)
(* runs to completion in one step.  Dates (uploadDate, timestamp) are read  *)
(* by the renderer only and are left out, as is the DOM.                    *)

\* strict equality of two JavaScript primitives: values of different types
\* are never equal
StrictEquals(a, b) == a.t = b.t /\ a.v = b.v

\* a File of the browser
File(name, size, type) == [t |-> "object", name |-> name, size |-> size, type |-> type]

File_notes == File(Name_notes, 1536, Type_text)
File_notesLonger == File(Name_notes, 2048, Type_text)
File_photo == File(Name_photo, 500, Type_png)
FilePool == { File_notes, File_notesLonger, File_photo }

\* the FileList of a drop or of the file input
FileLists ==
    UNION { [1..n -> FilePool] : n \in 1..MaxFileList }

\* values of the question input
QuestionInputs == { Question_document, Question_hello, Question_spaces }

\* Math.floor(Math.random() * answers.length)
RandomIndexes == 0..(Len(answers) - 1)

\* the decimal digits of a natural number
Digits == << "0", "1", "2", "3", "4", "5", "6", "7", "8", "9" >>
RECURSIVE numberToString(_)
numberToString(n) ==
    IF n < 10
    THEN << Digits[n + 1] >>
    ELSE numberToString(n \div 10) \o << Digits[(n % 10) + 1] >>

\* (num / den).toFixed(2), in hundredths, rounded to the nearest
toFixed(num, den) == (num * 200 + den) \div (2 * den)

\* String(parseFloat(hundredths / 100)): trailing zeros of the fraction are
\* not written
parseFloat(hundredths) ==
    numberToString(hundredths \div 100) \o
        (IF hundredths % 100 = 0
         THEN << >>
         ELSE IF hundredths % 10 = 0
         THEN << ".", Digits[((hundredths % 100) \div 10) + 1] >>
         ELSE << ".", Digits[((hundredths % 100) \div 10) + 1],
                 Digits[(hundredths % 10) + 1] >>)

formatFileSize(bytes) ==
    IF bytes = 0
    THEN ZeroBytes
    ELSE LET k == 1024
             i == IF bytes < k THEN 0
                  ELSE IF bytes < k * k THEN 1
                  ELSE IF bytes < k * k * k THEN 2
                  ELSE 3
             pow == IF i = 0 THEN 1
                    ELSE IF i = 1 THEN k
                    ELSE IF i = 2 THEN k * k
                    ELSE k * k * k
         IN  parseFloat(toFixed(bytes, pow)) \o Space \o sizes[i + 1]

\* the n-th id that generateId returns: no two calls return the same id
generateId(n) == n

isFileTypeSupported(file) == file.type \in supportedTypes

\* uploadedFiles.some(f => f.name === file.name && f.size === file.size):
\* f.size is the string that formatFileSize returned, file.size a number
alreadyUploaded(uploaded, file) ==
    \E i \in 1..Len(uploaded) :
        /\ uploaded[i].name = file.name
        /\ StrictEquals(uploaded[i].size, Num(file.size))

\* the entry that processFiles pushes
uploadedFile(id, file) ==
    [id |-> id,
     file |-> file,
     name |-> file.name,
     size |-> Str(formatFileSize(file.size)),
     type |-> file.type]

\* the loop of processFiles from files[i] on: the list and the count of ids
\* it ends with
RECURSIVE processFilesFrom(_, _, _, _)
processFilesFrom(files, i, uploaded, ids) ==
    IF i > Len(files)
    THEN [uploadedFiles |-> uploaded, generated |-> ids]
    ELSE IF ~isFileTypeSupported(files[i])
    THEN processFilesFrom(files, i + 1, uploaded, ids)
    ELSE IF alreadyUploaded(uploaded, files[i])
    THEN processFilesFrom(files, i + 1, uploaded, ids)
    ELSE processFilesFrom(files, i + 1,
             Append(uploaded, uploadedFile(generateId(ids + 1), files[i])), ids + 1)

\* the data that saveToLocalStorage writes: an uploaded file is written
\* without its File
saveToLocalStorage(files, messages, history) ==
    [uploadedFiles |->
         [i \in 1..Len(files) |->
             [id |-> files[i].id, name |-> files[i].name, size |-> files[i].size,
              type |-> files[i].type]],
     chatMessages |-> messages,
     queryHistory |-> history]

\* the uploaded files that loadFromLocalStorage reads back: file is undefined
loadedFiles(data) ==
    [i \in 1..Len(data.uploadedFiles) |->
        [id |-> data.uploadedFiles[i].id,
         file |-> Undefined,
         name |-> data.uploadedFiles[i].name,
         size |-> data.uploadedFiles[i].size,
         type |-> data.uploadedFiles[i].type]]

userMessage(id, message) == [id |-> id, type |-> "user", content |-> message]
botMessage(id, message) == [id |-> id, type |-> "bot", content |-> message]

generateSimulatedAnswer(q, random) ==
    LET lowerQuestion == toLowerCase(q)
    IN  IF includes(lowerQuestion, Word_what) /\ includes(lowerQuestion, Word_document)
        THEN Answer_whatDocument
        ELSE IF /\ includes(lowerQuestion, Word_who)
                /\ (includes(lowerQuestion, Word_author)
                       \/ includes(lowerQuestion, Word_created))
        THEN Answer_who
        ELSE IF includes(lowerQuestion, Word_summary)
                   \/ includes(lowerQuestion, Word_summarize)
        THEN Answer_summary
        ELSE IF includes(lowerQuestion, Word_howMany)
                   \/ includes(lowerQuestion, Word_numberOf)
        THEN Answer_howMany
        ELSE answers[random + 1]

\* setTimeout: timers are kept in the order they were set
ProcessFileDelay == 1500
AnswerDelay == 2000
setTimeout(timer) == timers' = Append(timers, timer)

\* timer j is due before every pending timer set earlier: a timer set earlier
\* with the same or a shorter delay fires first
Due(j) == \A i \in 1..(j - 1) : timers[i].delay > timers[j].delay

Fired(j) ==
    timers' = [i \in 1..(Len(timers) - 1) |-> IF i < j THEN timers[i] ELSE timers[i + 1]]

\* a drop on the upload area or a change of the file input
ProcessFiles ==
    \E files \in FileLists :
        LET done == processFilesFrom(files, 1, uploadedFiles, generated)
        IN  /\ done.generated <= MaxIds
            /\ Len(done.uploadedFiles) <= MaxFiles
            /\ uploadedFiles' = done.uploadedFiles
            /\ generated' = done.generated
            /\ localStorage' =
                   saveToLocalStorage(done.uploadedFiles, chatMessages, queryHistory)
            /\ UNCHANGED << composerVars, serverVars, chatMessages, queryHistory, timers >>

\* the Remove button of a listed file
RemoveFile ==
    \E j \in 1..Len(uploadedFiles) :
        LET kept == SelectSeq(uploadedFiles, LAMBDA f : f.id # uploadedFiles[j].id)
        IN  /\ uploadedFiles' = kept
            /\ localStorage' = saveToLocalStorage(kept, chatMessages, queryHistory)
            /\ UNCHANGED << composerVars, serverVars, chatMessages, queryHistory, timers,
                            generated >>

\* the Process button of a listed file
ProcessFile ==
    \E j \in 1..Len(uploadedFiles) :
        /\ Len(timers) < MaxTimers
        /\ setTimeout([kind |-> "processFile", delay |-> ProcessFileDelay,
                       name |-> uploadedFiles[j].name])
        /\ UNCHANGED << composerVars, serverVars, uploadedFiles, chatMessages, queryHistory,
                        localStorage, generated >>

\* the callback that processFile set
ProcessFileTimer ==
    \E j \in 1..Len(timers) :
        /\ timers[j].kind = "processFile"
        /\ Due(j)
        /\ generated < MaxIds
        /\ LET messages ==
                   Append(chatMessages,
                       botMessage(generateId(generated + 1),
                           ProcessedPrefix \o timers[j].name \o ProcessedSuffix))
           IN  /\ chatMessages' = messages
               /\ localStorage' = saveToLocalStorage(uploadedFiles, messages, queryHistory)
        /\ generated' = generated + 1
        /\ Fired(j)
        /\ UNCHANGED << composerVars, serverVars, uploadedFiles, queryHistory >>

\* the Ask button, or Enter in the question input
HandleQuestionSubmit ==
    \E input \in QuestionInputs :
        LET q == trim(input)
        IN  IF q = << >> \/ Len(uploadedFiles) = 0
            THEN UNCHANGED vars
            ELSE /\ generated + 2 <= MaxIds
                 /\ Len(timers) < MaxTimers
                 /\ LET asked == Append(chatMessages, userMessage(generateId(generated + 1), q))
                        loadingId == generateId(generated + 2)
                    IN  /\ localStorage' =
                               saveToLocalStorage(uploadedFiles, asked, queryHistory)
                        /\ chatMessages' = Append(asked, botMessage(loadingId, LoadingDots))
                        /\ setTimeout([kind |-> "answer", delay |-> AnswerDelay,
                                       loadingId |-> loadingId, question |-> q])
                 /\ generated' = generated + 2
                 /\ UNCHANGED << composerVars, serverVars, uploadedFiles, queryHistory >>

\* the callback that simulateAnswerGeneration set
AnswerTimer ==
    \E j \in 1..Len(timers), random \in RandomIndexes :
        /\ timers[j].kind = "answer"
        /\ Due(j)
        /\ generated + 2 <= MaxIds
        /\ LET answer == generateSimulatedAnswer(timers[j].question, random)
               messages ==
                   Append(SelectSeq(chatMessages, LAMBDA msg : msg.id # timers[j].loadingId),
                       botMessage(generateId(generated + 1), answer))
               history ==
                   Append(queryHistory,
                       [id |-> generateId(generated + 2), question |-> timers[j].question,
                        answer |-> answer])
           IN  /\ chatMessages' = messages
               /\ queryHistory' = history
               /\ localStorage' = saveToLocalStorage(uploadedFiles, messages, history)
        /\ generated' = generated + 2
        /\ Fired(j)
        /\ UNCHANGED << composerVars, serverVars, uploadedFiles >>

\* a click on an item of the query history
LoadHistoryItem ==
    \E j \in 1..Len(queryHistory) :
        /\ generated + 2 <= MaxIds
        /\ LET item == queryHistory[j]
               messages ==
                   chatMessages \o
                       << userMessage(generateId(generated + 1), item.question),
                          botMessage(generateId(generated + 2), item.answer) >>
           IN  /\ chatMessages' = messages
               /\ localStorage' = saveToLocalStorage(uploadedFiles, messages, queryHistory)
        /\ generated' = generated + 2
        /\ UNCHANGED << composerVars, serverVars, uploadedFiles, queryHistory, timers >>

\* the page is loaded again: its variables start empty, loadFromLocalStorage
\* reads what was saved, and the timers of the page that was left are gone
Reload ==
    /\ IF localStorage = Null
       THEN /\ uploadedFiles' = << >>
            /\ chatMessages' = << >>
            /\ queryHistory' = << >>
       ELSE /\ uploadedFiles' = loadedFiles(localStorage)
            /\ chatMessages' = localStorage.chatMessages
            /\ queryHistory' = localStorage.queryHistory
    /\ timers' = << >>
    /\ UNCHANGED << composerVars, serverVars, localStorage, generated >>

BrowserSpecInit ==
    /\ question = Question_empty
    /\ documentText = Null
    /\ result = NotCalled
    /\ ServerInit
    /\ BrowserInit

BrowserNext ==
    \/ ProcessFiles
    \/ RemoveFile
    \/ ProcessFile
    \/ ProcessFileTimer
    \/ HandleQuestionSubmit
    \/ AnswerTimer
    \/ LoadHistoryItem
    \/ Reload

BrowserSpec == BrowserSpecInit /\ [][BrowserNext]_vars

-----------------------------------------------------------------------------
(* Properties of the composer, checked under ComposerSpec *)

Called == result # NotCalled

\* trimmed length of the document text; null has none and counts as 0
TrimmedLength(text) == IF text.t = "string" THEN Len(trim(text.v)) ELSE 0

FallbackStrings == {Fallback_what, Fallback_how, Fallback_why, Fallback_general}

AnswerStartsWith(prefix) ==
    /\ result.t = "object"
    /\ result.answer.t = "string"
    /\ startsWith(result.answer.v, prefix)

\* the whitespace-separated words of the question, as written, longer than n
WordsLongerThan(q, n) ==
    {w \in {split(q, WhiteSpace)[i] : i \in 1..Len(split(q, WhiteSpace))} : Len(w) > n}

\* every piece of the text between runs of . ! ?
RawSentences(text) ==
    {split(text, SentenceDelimiters)[i] : i \in 1..Len(split(text, SentenceDelimiters))}

\* C1: a document text that is null, empty or shorter than 50 characters after
\* trimming always yields the bare fallback string chosen by
\* generateFallbackAnswer, never a "Based on the document", "Document summary"
\* or "The document mentions" answer, whatever the question.
C1_ShortTextFallsBack ==
    (Called /\ TrimmedLength(documentText) < 50) =>
        /\ result.t = "string"
        /\ result.v \in FallbackStrings
        /\ result.v = generateFallbackAnswer(question)
        /\ ~startsWith(result.v, BasedOnPrefix)
        /\ ~startsWith(result.v, SummaryPrefix)
        /\ ~startsWith(result.v, MentionsPrefix)

\* C1 witness: a text of 50 or more characters whose trimmed length is below
\* 50, with a question whose word occurs in it, got the bare fallback.
C1_Witness ==
    /\ Called
    /\ documentText.t = "string"
    /\ Len(documentText.v) >= 50
    /\ TrimmedLength(documentText) \in 1..49
    /\ question = Question_sunny
    /\ includes(documentText.v, << "s", "u", "n", "n", "y" >>)
    /\ result = Str(Fallback_how)

\* C2 as stated: for every document text, a question word longer than 4 that
\* occurs verbatim in some sentence gives a "Based on the document: " answer.
C2_Original ==
    (/\ Called
     /\ documentText.t = "string"
     /\ \E w \in WordsLongerThan(question, 4) :
            \E s \in RawSentences(documentText.v) : includes(s, w))
        => AnswerStartsWith(BasedOnPrefix)

\* C2 (amended): when the trimmed text has at least 50 characters and a
\* whitespace-separated question word longer than 4 occurs verbatim in a
\* candidate sentence (trimmed length above 10), the answer starts with
\* "Based on the document: " followed by that sentence, trimmed, or by an
\* earlier candidate sentence, trimmed.
C2_RelevantSentenceAnswered ==
    (Called /\ TrimmedLength(documentText) >= 50) =>
        LET sentences == candidateSentences(documentText.v)
        IN  \A i \in 1..Len(sentences) :
                (\E w \in WordsLongerThan(question, 4) : includes(sentences[i], w))
                    => \E j \in 1..i :
                          AnswerStartsWith(BasedOnPrefix \o trim(sentences[j]))

\* C2 witness: the matching sentence is the second candidate and the answer
\* starts with it.
C2_Witness ==
    /\ Called
    /\ TrimmedLength(documentText) >= 50
    /\ LET sentences == candidateSentences(documentText.v)
       IN  /\ Len(sentences) >= 2
           /\ \E w \in WordsLongerThan(question, 4) : includes(sentences[2], w)
           /\ AnswerStartsWith(BasedOnPrefix \o trim(sentences[2]))
           /\ ~AnswerStartsWith(BasedOnPrefix \o trim(sentences[1]))

\* what the "Document summary: " branch returns
IsSummaryAnswer ==
    /\ AnswerStartsWith(SummaryPrefix)
    /\ result.confidence = Num(80)
    /\ result.sources = Arr(<< "Document Introduction" >>)

NoRelevantSentence ==
    documentText.t = "string" => relevantSentences(question, documentText.v) = << >>

\* C3 as stated: for every document text, a question containing "summary"
\* with no keyword-relevant sentence gets the "Document summary: " answer.
C3_Original ==
    (Called /\ includes(question, Word_summary) /\ NoRelevantSentence)
        => IsSummaryAnswer

\* C3 (amended): when the trimmed text has at least 50 characters, the
\* question contains "summary" and no candidate sentence is relevant, the
\* answer starts with "Document summary: " (confidence 0.8, source "Document
\* Introduction") and is none of the fallback strings.
C3_SummaryBranch ==
    (/\ Called
     /\ TrimmedLength(documentText) >= 50
     /\ includes(question, Word_summary)
     /\ NoRelevantSentence)
        => /\ IsSummaryAnswer
           /\ result.answer.v \notin FallbackStrings

\* C3 witness: "quick summary" on a text whose only sentence with "quick" is
\* too short to be a candidate, answered with the summary.
C3_Witness ==
    /\ Called
    /\ question = Question_quick
    /\ TrimmedLength(documentText) >= 50
    /\ includes(documentText.v, << "q", "u", "i", "c", "k" >>)
    /\ Len(candidateSentences(documentText.v)) >= 2
    /\ IsSummaryAnswer

IsContentAnswer ==
    /\ result.t = "object"
    /\ result.sources = Arr(<< "Document Content Analysis" >>)

\* C5: in the relevant-sentences branch the confidence, in hundredths, is
\* min(70 + 10 n, 95) for n relevant sentences: never above 95, 95 from n = 3
\* on, and no smaller than the confidence of any smaller count.
C5_ConfidenceCapped ==
    (Called /\ IsContentAnswer) =>
        LET n == Len(relevantSentences(question, documentText.v))
            c == result.confidence.v
        IN  /\ n >= 1
            /\ result.confidence.t = "number"
            /\ c = (IF 70 + 10 * n < 95 THEN 70 + 10 * n ELSE 95)
            /\ c <= 95
            /\ (n >= 3 => c = 95)
            /\ \A m \in 1..n : confidenceFor(m) <= c

\* C5 witness: an answer built from three or more relevant sentences.
C5_Witness ==
    /\ Called
    /\ IsContentAnswer
    /\ Len(relevantSentences(question, documentText.v)) >= 3
    /\ result.confidence = Num(95)

\* C6: the composer never throws: every question string and every text (null,
\* empty, blank or any string) gets a string or a record with an answer
\* string; "" with the question "anything" gets the general fallback string.
C6_NeverThrows ==
    Called =>
        /\ result # TypeError
        /\ \/ result.t = "string"
           \/ result.t = "object" /\ result.answer.t = "string"
        /\ (question = Question_anything /\ documentText = Str(<< >>))
               => result = Str(Fallback_general)

\* C6 witness: the empty text with the question "anything" has returned the
\* general fallback.
C6_Witness ==
    /\ Called
    /\ documentText = Str(<< >>)
    /\ question = Question_anything
    /\ result = Str(Fallback_general)

WorkedExample ==
    /\ Called
    /\ question = Question_cat
    /\ documentText = Str(Fragment_cat \o Fragment_sunny)

\* C7 as stated: the worked example's answer starts with "Based on the
\* document: The cat sat on the mat".
C7_Original ==
    WorkedExample => AnswerStartsWith(BasedOnPrefix \o Sentence_cat)

\* C7 (amended): in the worked example the only significant word is "what",
\* no sentence is relevant, and the answer is "The document mentions: The cat
\* sat on the mat" with confidence 0.75 and source "Relevant Document Section".
C7_WorkedExample ==
    WorkedExample =>
        /\ questionWords(question) = << Word_what >>
        /\ relevantSentences(question, documentText.v) = << >>
        /\ result = Obj(MentionsPrefix \o Sentence_cat, 75,
                        << "Relevant Document Section" >>)

\* C7 witness: the worked example has been answered.
C7_Witness ==
    /\ WorkedExample
    /\ AnswerStartsWith(MentionsPrefix \o Sentence_cat)

\* the last branch: usable text, no relevant sentence, no "summary"/"overview"
LastBranch ==
    /\ Called
    /\ TrimmedLength(documentText) >= 50
    /\ relevantSentences(question, documentText.v) = << >>
    /\ ~asksForSummary(question)

\* the candidate sentences that contain a keyword of the question's type
KeywordSentences ==
    LET sentences == candidateSentences(documentText.v)
        keywords == relevantKeywords(getQuestionType(question))
    IN  {i \in 1..Len(sentences) :
            \E k \in 1..Len(keywords) : includes(toLowerCase(sentences[i]), keywords[k])}

MentionsAnswer(sentence) ==
    Obj(MentionsPrefix \o trim(sentence), 75, << "Relevant Document Section" >>)

GeneralAnalysisAnswer ==
    Obj(generateFallbackAnswer(question), 60, << "General Document Analysis" >>)

FirstKeywordSentence ==
    candidateSentences(documentText.v)[
        CHOOSE i \in KeywordSentences : \A j \in KeywordSentences : i <= j]

\* C11 as stated: in the last branch the "The document mentions: " answer is
\* given only for the first sentence that contains a keyword of the question
\* type; with no such sentence the fallback template is returned with
\* confidence 0.6 and source "General Document Analysis".
C11_Original ==
    LastBranch =>
        IF KeywordSentences # {}
        THEN result = MentionsAnswer(FirstKeywordSentence)
        ELSE result = GeneralAnalysisAnswer

\* C11 (amended): in the last branch the answer is "The document mentions: "
\* + the first candidate sentence that contains a keyword of the question
\* type, or, when none does, + the first candidate sentence (confidence 0.75,
\* source "Relevant Document Section"); the fallback template with confidence
\* 0.6 and source "General Document Analysis" is returned only when the text
\* has no candidate sentence.
C11_ContextualAnswer ==
    LastBranch =>
        IF KeywordSentences # {}
        THEN result = MentionsAnswer(FirstKeywordSentence)
        ELSE IF Len(candidateSentences(documentText.v)) > 0
        THEN result = MentionsAnswer(candidateSentences(documentText.v)[1])
        ELSE result = GeneralAnalysisAnswer

\* C11 witness: a "who" question, which has no keyword set, on a text with
\* candidate sentences got the first sentence.
C11_Witness ==
    /\ LastBranch
    /\ question = Question_who
    /\ KeywordSentences = {}
    /\ Len(candidateSentences(documentText.v)) >= 2
    /\ result = MentionsAnswer(candidateSentences(documentText.v)[1])

\* the subsequences of the two relevant sentences after the first
FurtherSentences(relevant) ==
    LET next == slice(relevant, 1, 3)
    IN  {<< >>} \cup {<< next[i] >> : i \in 1..Len(next)}
            \cup (IF Len(next) = 2 THEN {next} ELSE {})

PairwiseDistinct(a) == \A i, j \in 1..Len(a) : i # j => a[i] # a[j]

\* C12: the content answer is "Based on the document: " + the first relevant
\* sentence, then after " Additionally, " at most two of the next relevant
\* sentences in document order, and the sentences used are pairwise distinct.
C12_Original ==
    (Called /\ IsContentAnswer) =>
        LET relevant == relevantSentences(question, documentText.v)
            answer == BasedOnPrefix \o trim(relevant[1])
        IN  \E further \in FurtherSentences(relevant) :
                /\ PairwiseDistinct(<< relevant[1] >> \o further)
                /\ result.answer.v =
                       IF Len(further) > 0
                       THEN answer \o AdditionallyInfix \o join(further, Space)
                       ELSE answer

LeadingWord(q) == split(toLowerCase(q), WhiteSpace)[1]

\* C13 as stated: the fallback string is chosen by the question's leading
\* word: the "what", "how" or "why" string exactly when that word is what,
\* how or why, the general string otherwise.
C13_Original ==
    (Called /\ result.t = "string") =>
        result.v = (CASE LeadingWord(question) = Word_what -> Fallback_what
                      [] LeadingWord(question) = Word_how -> Fallback_how
                      [] LeadingWord(question) = Word_why -> Fallback_why
                      [] OTHER -> Fallback_general)

\* C13 (amended): the fallback string is chosen by substring containment in
\* the lower-cased question: the "what" string when it contains "what",
\* otherwise the "how" string when it contains "how", otherwise the "why"
\* string when it contains "why", and the general string otherwise; the four
\* strings are pairwise distinct.
C13_FallbackBySubstring ==
    (Called /\ result.t = "string") =>
        /\ result.v =
              (IF includes(toLowerCase(question), Word_what) THEN Fallback_what
               ELSE IF includes(toLowerCase(question), Word_how) THEN Fallback_how
               ELSE IF includes(toLowerCase(question), Word_why) THEN Fallback_why
               ELSE Fallback_general)
        /\ Cardinality(FallbackStrings) = 4

\* C13 witness: "When somehow" got the "how" string, "how" being inside
\* "somehow".
C13_Witness ==
    /\ Called
    /\ question = Question_when
    /\ LeadingWord(question) = Word_when
    /\ result = Str(Fallback_how)

-----------------------------------------------------------------------------
(* Properties of the request handlers, checked under Spec *)

NoRequestInFlight == requests = EmptyBag

\* C4: every stored Query carries an answer string and a confidence that is a
\* number in [0, 1] (0 to 100 hundredths), also when the document's text has
\* 10 to 49 trimmed characters and the composer returns the bare fallback.
C4_Original ==
    \A i \in 1..Len(queries) :
        /\ queries[i].answer.t = "string"
        /\ queries[i].confidence.t = "number"
        /\ queries[i].confidence.v \in 0..100

\* C8: once a delete has succeeded and no request is in flight, no Query of a
\* deleted document is left in the store.
C8_Original ==
    NoRequestInFlight =>
        \A i \in 1..Len(queries) : queries[i].documentId \in DOMAIN documents

\* C9: once a document is processed, no step changes its extractedText,
\* processed or wordCount while the document exists.
C9_MutatedOnce ==
    [][\A id \in DOMAIN documents \cap DOMAIN documents' :
           documents[id].processed =>
               /\ documents'[id].processed = documents[id].processed
               /\ documents'[id].extractedText = documents[id].extractedText
               /\ documents'[id].wordCount = documents[id].wordCount]_vars

\* C9 witness: a process request that found its document already processed
\* has saved it again and answered 200.
C9_Witness ==
    /\ response = [route |-> "process", status |-> 200, loaded |-> "processed"]
    /\ \E id \in DOMAIN documents : documents[id].processed

\* a handler suspended in this step
NewlySuspended ==
    {request \in BagToSet(requests') : CopiesIn(request, requests') > CopiesIn(request, requests)}

\* document id holds a processed document with text to answer from
Answerable(id) ==
    /\ id \in DOMAIN documents
    /\ documents[id].processed
    /\ Truthy(documents[id].extractedText)

\* a Query is constructed in this step only for an answerable document and a
\* non-empty question
ConstructedForProcessed ==
    \A request \in NewlySuspended :
        (request.kind = "ask") =>
            (Answerable(request.query.documentId) /\ request.query.question # << >>)

\* a Query enters the store in this step only from a suspended ask
StoredFromAsk ==
    (queries' # queries /\ Len(queries') >= Len(queries)) =>
        (\E request \in Suspended :
            request.kind = "ask" /\ queries' = Append(queries, request.query))

\* an ask answered with 400 or 404 in this step changes no stored record
RejectedChangesNothing ==
    (response' # response /\ response'.route = "ask" /\ response'.status \in {400, 404}) =>
        (documents' = documents /\ queries' = queries /\ requests' = requests)

\* every Query, stored or about to be, of a document that still exists belongs
\* to a processed document with text
QueriesOfProcessed ==
    \A id \in DOMAIN documents :
        ((\E i \in 1..Len(queries) : queries[i].documentId = id)
            \/ (\E request \in Suspended :
                    request.kind = "ask" /\ request.query.documentId = id))
        => (documents[id].processed /\ Truthy(documents[id].extractedText))

\* C14: POST /api/ask constructs a Query only for a request that carries a
\* documentId and a question and whose document, at the lookup, exists, is
\* processed and has non-empty extractedText; a Query enters the store only
\* from such a request; a step that answers an ask with 400 or 404 changes
\* no Query, no Document and no suspended handler; so every Query, stored or
\* about to be, whose document still exists belongs to a processed document.
C14_AskOnlyProcessed ==
    /\ [][ConstructedForProcessed /\ StoredFromAsk /\ RejectedChangesNothing]_vars
    /\ []QueriesOfProcessed

\* C14 witness: an ask for an uploaded but unprocessed document was answered
\* 400, and neither the store nor a suspended handler holds a Query.
C14_Witness ==
    /\ response = [route |-> "ask", status |-> 400, loaded |-> "unprocessed"]
    /\ \E id \in DOMAIN documents : ~documents[id].processed
    /\ queries = << >>
    /\ PendingQueries = 0

\* the stored queries of document id, newest first, at most HistoryLimit
QueriesOf(id) ==
    limit(sortByTimestampDescending(
              SelectSeq(queries, LAMBDA query : query.documentId = id)),
          HistoryLimit)

\* C15: a step that answers GET /api/history/:documentId returns exactly the
\* stored queries whose documentId equals the path parameter, newest first
\* and at most 50, and never a query of another document.
C15_Original ==
    [][(response' # response /\ response'.route = "history") =>
           (response'.body = QueriesOf(response'.documentId))]_vars

-----------------------------------------------------------------------------
(* Properties of the page script, checked under BrowserSpec *)

\* entries i and j of uploadedFiles hold files of the same name and byte size
SameFile(i, j) ==
    /\ uploadedFiles[i].file # Undefined
    /\ uploadedFiles[j].file # Undefined
    /\ uploadedFiles[i].file.name = uploadedFiles[j].file.name
    /\ uploadedFiles[i].file.size = uploadedFiles[j].file.size

\* C16: uploadedFiles never holds two entries with the same name and the same
\* byte size; a file that is already listed is skipped when it is uploaded
\* again.
C16_Original ==
    \A i, j \in 1..Len(uploadedFiles) : i < j => ~SameFile(i, j)

\* C17: the loading indicator that simulateAnswerGeneration pushes is never
\* part of the data that saveToLocalStorage has written.
C17_Original ==
    localStorage # Null =>
        \A i \in 1..Len(localStorage.chatMessages) :
            localStorage.chatMessages[i].content # LoadingDots

====
